---------------------------- MODULE Spec2Model ----------------------------
(***************************************************************************)
(* Model of scripts/deploy-openclaw.py: the VNet address manager           *)
(* (VNetAddressManager) and the VM deployment that consumes its result     *)
(* (VMDeployer.deploy, VMDeployer._resolve_network_config).                *)
(*                                                                         *)
(* Text.  A string that is meant to hold a CIDR block "a.b.c.d/l" is the   *)
(* tuple <<a, b, c, d, l>>; the empty string and None are <<>>; the        *)
(* literal "existing" is <<0>>.  ip_network parses a text into a network   *)
(* [addr, len] (strict: host bits must be zero), str_network formats one.  *)
(* Addresses are below 2^31 (first octet <= 127) in every text used here.  *)
(***************************************************************************)
EXTENDS Integers, Sequences, FiniteSets, TLC

VARIABLES
    op,                 \* which run this is: "top", "sub" (allocator alone) or "deploy"
    existing_prefixes,  \* allocator run: the list get_existing_vnet_prefixes returned
    vnet_info,          \* allocator run: the JSON of `az network vnet show` (NoInfo = None)
    returned,           \* allocator run: the ranges returned so far, in order
    last,               \* allocator run: outcome of the latest allocator call
    args,               \* deployment run: the command line of `deploy-openclaw.py vm`
    config,             \* DeployConfig
    azure,              \* the virtual networks of the resource group when the run starts
    pc,                 \* the method VMDeployer.deploy is about to call
    calls,              \* the commands executed so far (subprocess.run), in order
    outcome,            \* "running", "done", "usage", "exit", "RuntimeError", "ValueError"
    plan                \* what _resolve_network_config did: its result and its queries

vars == <<op, existing_prefixes, vnet_info, returned, last,
          args, config, azure, pc, calls, outcome, plan>>

allocVars == <<existing_prefixes, vnet_info, returned, last>>
deployVars == <<args, config, azure, pc, calls, outcome, plan>>

-----------------------------------------------------------------------------
(* Bounds of the model *)

MaxClaimed == 3     \* size of the claimed set / subnet list drawn by Init
MaxAllocs == 3      \* allocator calls fed back into the claimed set in one run

-----------------------------------------------------------------------------
(* Texts and networks *)

Cidr(a, b, c, d, l) == <<a, b, c, d, l>>
EmptyText == <<>>
ExistingText == <<0>>

BASE_NETWORK == Cidr(10, 200, 0, 0, 16)
VNET_PREFIX_LEN == 27
SUBNET_PREFIX_LEN == 28

\* number of addresses of a block of prefix length l
BlockSize(l) == 2 ^ (32 - l)

\* ipaddress.ip_network(text) raises ValueError (strict=True)
ip_network_raises(t) ==
    \/ Len(t) # 5
    \/ \E i \in 1..4 : t[i] \notin 0..255
    \/ t[5] \notin 0..32
    \/ (t[1] * 16777216 + t[2] * 65536 + t[3] * 256 + t[4]) % BlockSize(t[5]) # 0

\* ipaddress.ip_network(text), when it does not raise
ip_network(t) ==
    [addr |-> t[1] * 16777216 + t[2] * 65536 + t[3] * 256 + t[4], len |-> t[5]]

\* str(network) gone wrong: the first host address is printed instead of the base
str_network_first_host(n) ==
    <<n.addr \div 16777216, (n.addr \div 65536) % 256, (n.addr \div 256) % 256,
      (n.addr % 256) + 1, n.len>>

\* str(network)
str_network(n) ==
    <<n.addr \div 16777216, (n.addr \div 65536) % 256, (n.addr \div 256) % 256,
      n.addr % 256, n.len>>

network_address(n) == n.addr
broadcast_address(n) == n.addr + BlockSize(n.len) - 1

\* address in network: (ip & netmask) == network_address
contains_address(n, ip) == ip - (ip % BlockSize(n.len)) = n.addr

\* overlaps gone wrong: only the ends of a are looked up in b
overlaps_only_self_in_other(a, b) ==
    \/ contains_address(b, network_address(a))
    \/ contains_address(b, broadcast_address(a))

\* IPv4Network.overlaps
overlaps(a, b) ==
    \/ contains_address(b, network_address(a))
    \/ contains_address(b, broadcast_address(a))
    \/ contains_address(a, network_address(b))
    \/ contains_address(a, broadcast_address(b))

\* network.subnets(new_prefix=p) raises ValueError("new prefix must be longer")
subnets_raises(n, p) == p < n.len

\* network.subnets(new_prefix=p) is a generator: how many blocks it yields,
\* and the k-th of them (k = 1 is the first), in ascending order of address
subnets_count(n, p) == 2 ^ (p - n.len)
subnets_at_off_by_one(n, p, k) == [addr |-> n.addr + k * BlockSize(p), len |-> p]
subnets_at(n, p, k) == [addr |-> n.addr + (k - 1) * BlockSize(p), len |-> p]

\* the loop gone wrong: after the last candidate, the loop variable is used
first_free_falls_through(n, p, existing) ==
    LET free(k) == ~\E e \in existing : overlaps(subnets_at(n, p, k), e)
        count == subnets_count(n, p)
    IN  IF \E k \in 1..count : free(k)
        THEN CHOOSE k \in 1..count : free(k) /\ \A j \in 1..(k - 1) : ~free(j)
        ELSE count

\* `for subnet in network.subnets(new_prefix=p)` with the inner overlap loop:
\* the position of the first block that overlaps no existing network, 0 when
\* the loop runs to its end
first_free(n, p, existing) ==
    LET free(k) == ~\E e \in existing : overlaps(subnets_at(n, p, k), e)
        count == subnets_count(n, p)
    IN  IF \E k \in 1..count : free(k)
        THEN CHOOSE k \in 1..count : free(k) /\ \A j \in 1..(k - 1) : ~free(j)
        ELSE 0

-----------------------------------------------------------------------------
(* VNetAddressManager *)

NoText == EmptyText

OkResult(v, s) == [status |-> "ok", msg |-> "", vnet_prefix |-> v, subnet_prefix |-> s]
Raised(exc, m) == [status |-> exc, msg |-> m, vnet_prefix |-> NoText, subnet_prefix |-> NoText]

\* lines 206-211: the prefixes that parse; a ValueError is passed over
existing_networks_of(prefixes) ==
    {ip_network(p) : p \in {q \in prefixes : ~ip_network_raises(q)}}

\* get_next_available_prefix, given what get_existing_vnet_prefixes returned
get_next_available_prefix(prefixes) ==
    LET existing_networks == existing_networks_of(prefixes)
        base_network == ip_network(BASE_NETWORK)
        i == first_free(base_network, VNET_PREFIX_LEN, existing_networks)
        subnet == subnets_at(base_network, VNET_PREFIX_LEN, i)
    IN  IF i # 0
        THEN OkResult(str_network(subnet),
                      str_network(subnets_at(subnet, SUBNET_PREFIX_LEN, 1)))
        ELSE Raised("RuntimeError", "No available VNet address space")

\* the JSON of `az network vnet show`; NoInfo is None (the command failed or printed nothing)
NoInfo == [found |-> FALSE, prefixes |-> <<>>, subnets |-> {}]

\* the subnet loop gone wrong: a prefix that does not parse is passed over
subnet_prefixes_parsable(info) ==
    {p \in {u.addressPrefix : u \in info.subnets} : ~ip_network_raises(p)}

\* the subnet loop gone wrong: no subnet's prefix is collected
subnet_prefixes_none(info) == {}

\* lines 256-260: the addressPrefix of every subnet that has one
subnet_prefixes_of(info) ==
    {s.addressPrefix : s \in {u \in info.subnets : u.addressPrefix # EmptyText}}

\* get_next_subnet_in_vnet outside dry-run, given what `az network vnet show` returned
get_next_subnet_in_vnet(info) ==
    IF ~info.found
    THEN Raised("RuntimeError", "VNet not found")
    ELSE IF info.prefixes = <<>>
    THEN Raised("RuntimeError", "VNet has no address space")
    ELSE IF ip_network_raises(info.prefixes[1])
    THEN Raised("ValueError", "vnet prefix")
    ELSE IF \E p \in subnet_prefixes_of(info) : ip_network_raises(p)
    THEN Raised("ValueError", "subnet prefix")
    ELSE LET vnet_network == ip_network(info.prefixes[1])
             existing_subnets == {ip_network(p) : p \in subnet_prefixes_of(info)}
         IN  IF subnets_raises(vnet_network, SUBNET_PREFIX_LEN)
             THEN Raised("ValueError", "new prefix must be longer")
             ELSE LET i == first_free(vnet_network, SUBNET_PREFIX_LEN, existing_subnets)
                  IN  IF i # 0
                      THEN OkResult(NoText, str_network(
                               subnets_at(vnet_network, SUBNET_PREFIX_LEN, i)))
                      ELSE Raised("RuntimeError", "No available subnet space")

-----------------------------------------------------------------------------
(* Inputs of the allocator runs *)

RECURSIVE SubsetsUpTo(_, _)
SubsetsUpTo(S, n) ==
    IF n = 0 THEN {{}}
    ELSE LET P == SubsetsUpTo(S, n - 1)
         IN  P \cup {p \cup {x} : p \in P, x \in S}

\* texts an inventory of networks may hold
TopPool ==
    { Cidr(10, 200, 0, 0, 27), Cidr(10, 200, 0, 32, 27), Cidr(10, 200, 255, 224, 27),
      Cidr(10, 200, 0, 0, 28), Cidr(10, 200, 0, 16, 28), Cidr(10, 200, 0, 8, 29),
      Cidr(10, 200, 0, 0, 26),
      Cidr(10, 200, 0, 0, 17), Cidr(10, 200, 128, 0, 17), Cidr(10, 200, 0, 0, 16),
      Cidr(10, 100, 0, 0, 16),
      Cidr(10, 200, 0, 5, 27), Cidr(10, 200, 0, 300, 27) }

\* first address prefixes a network may have
ParentPool ==
    { <<Cidr(10, 200, 5, 0, 27)>>, <<Cidr(10, 200, 0, 0, 26)>>,
      <<Cidr(10, 200, 5, 0, 28)>>, <<Cidr(10, 200, 5, 0, 29)>>,
      <<Cidr(10, 200, 5, 0, 24), Cidr(10, 200, 0, 0, 26)>>,
      <<Cidr(10, 200, 5, 1, 27)>>, <<>> }

\* addressPrefix values a subnet may have
SubnetPool ==
    { Cidr(10, 200, 5, 0, 28), Cidr(10, 200, 5, 16, 28), Cidr(10, 200, 5, 32, 28),
      Cidr(10, 200, 5, 0, 29), Cidr(10, 200, 5, 24, 30), Cidr(10, 200, 5, 0, 27),
      Cidr(10, 200, 5, 0, 24),
      Cidr(10, 200, 0, 0, 28), Cidr(10, 200, 0, 16, 28), Cidr(10, 200, 0, 32, 27),
      Cidr(10, 200, 5, 1, 28), EmptyText }

SubnetsOf(ps) == {[name |-> "subnet", addressPrefix |-> p] : p \in ps}

NoCall == [call |-> "none", claimed |-> {}, info |-> NoInfo, res |-> Raised("none", "")]

\* the command line: a name that is not given is "", a prefix that is not given is EmptyText
NoArgs == [dry_run |-> FALSE, vnet_name |-> "", subnet_name |-> "",
           vnet_prefix |-> EmptyText, subnet_prefix |-> EmptyText]

\* DeployConfig(**config_kwargs) before __post_init__ has run
ConfigOf(a) == [dry_run |-> a.dry_run, vnet_name |-> a.vnet_name,
                subnet_name |-> a.subnet_name, vnet_prefix |-> a.vnet_prefix,
                subnet_prefix |-> a.subnet_prefix,
                reuse_vnet |-> FALSE, reuse_subnet |-> FALSE]

NoPlan == [status |-> "none", msg |-> "", listed |-> {}, list_ok |-> FALSE,
           allocator |-> "none"]

DeployIdle ==
    /\ args = NoArgs
    /\ config = ConfigOf(NoArgs)
    /\ azure = {}
    /\ pc = "idle"
    /\ calls = <<>>
    /\ outcome = "idle"
    /\ plan = NoPlan

InitTop ==
    /\ op = "top"
    /\ existing_prefixes \in SubsetsUpTo(TopPool, MaxClaimed)
    /\ vnet_info = NoInfo
    /\ returned = <<>>
    /\ last = NoCall
    /\ DeployIdle

InitSub ==
    /\ op = "sub"
    /\ existing_prefixes = {}
    /\ \E ps \in ParentPool, ss \in SubsetsUpTo(SubnetPool, MaxClaimed), f \in BOOLEAN :
          vnet_info = IF f THEN [found |-> TRUE, prefixes |-> ps, subnets |-> SubnetsOf(ss)]
                      ELSE NoInfo
    /\ returned = <<>>
    /\ last = NoCall
    /\ DeployIdle

InitAlloc == InitTop \/ InitSub

\* one call of get_next_available_prefix; the range it returns joins the inventory
AllocateTop ==
    /\ op = "top"
    /\ Len(returned) < MaxAllocs
    /\ last.res.status \in {"none", "ok"}
    /\ LET r == get_next_available_prefix(existing_prefixes)
       IN  /\ last' = [call |-> "top", claimed |-> existing_prefixes, info |-> vnet_info, res |-> r]
           /\ IF r.status = "ok"
              THEN /\ returned' = Append(returned, r.vnet_prefix)
                   /\ existing_prefixes' = existing_prefixes \cup {r.vnet_prefix}
              ELSE UNCHANGED <<returned, existing_prefixes>>
    /\ UNCHANGED <<op, vnet_info, deployVars>>

\* one call of get_next_subnet_in_vnet; the subnet it returns joins the network
AllocateSub ==
    /\ op = "sub"
    /\ Len(returned) < MaxAllocs
    /\ last.res.status \in {"none", "ok"}
    /\ LET r == get_next_subnet_in_vnet(vnet_info)
       IN  /\ last' = [call |-> "sub", claimed |-> existing_prefixes, info |-> vnet_info, res |-> r]
           /\ IF r.status = "ok"
              THEN /\ returned' = Append(returned, r.subnet_prefix)
                   /\ vnet_info' = [vnet_info EXCEPT !.subnets =
                                       @ \cup SubnetsOf({r.subnet_prefix})]
              ELSE UNCHANGED <<returned, vnet_info>>
    /\ UNCHANGED <<op, existing_prefixes, deployVars>>

NextAlloc == AllocateTop \/ AllocateSub

SpecAlloc == InitAlloc /\ [][NextAlloc]_vars

-----------------------------------------------------------------------------
(* AzureCLI and the provider *)

\* an executed command: what it is, the address prefix it carries, and
\* whether it failed (CalledProcessError)
Cmd(c, a) == [cmd |-> c, arg |-> a, failed |-> FALSE]
Failed(command) == [command EXCEPT !.failed = TRUE]

\* AzureCLI.run: in a dry run the command is printed and nothing is executed
\* the dry-run test left out: every command is executed
az_run_always(cs, c, command) == Append(cs, command)

az_run(cs, c, command) == IF c.dry_run THEN cs ELSE Append(cs, command)

InfoOf(v) == [found |-> TRUE, prefixes |-> v.prefixes, subnets |-> v.subnets]

\* run_json(["network", "vnet", "show", ...], check=False): None unless the
\* command succeeds (ok) on a network that exists
vnet_show(az, name, ok) ==
    IF ok /\ \E v \in az : v.name = name
    THEN InfoOf(CHOOSE v \in az : v.name = name)
    ELSE NoInfo

NoSubnetInfo == [found |-> FALSE, addressPrefix |-> EmptyText]

\* run_json(["network", "vnet", "subnet", "show", ...], check=False)
subnet_show(az, vnet, name, ok) ==
    LET info == vnet_show(az, vnet, ok)
    IN  IF \E u \in info.subnets : u.name = name
        THEN [found |-> TRUE,
              addressPrefix |-> (CHOOSE u \in info.subnets : u.name = name).addressPrefix]
        ELSE NoSubnetInfo

\* a mistaken query: only the first address prefix of each network is listed
get_existing_vnet_prefixes_first_only(c, az, ok) ==
    IF c.dry_run \/ ~ok THEN {}
    ELSE {v.prefixes[1] : v \in {w \in az : w.prefixes # <<>>}}

\* the outcome of the list query not looked at
get_existing_vnet_prefixes_unguarded(c, az, ok) ==
    IF c.dry_run THEN {}
    ELSE UNION {{v.prefixes[i] : i \in 1..Len(v.prefixes)} : v \in az}

\* get_existing_vnet_prefixes: the query [].addressSpace.addressPrefixes[];
\* a failed command and an empty list both give []
get_existing_vnet_prefixes(c, az, ok) ==
    IF c.dry_run \/ ~ok THEN {}
    ELSE UNION {{v.prefixes[i] : i \in 1..Len(v.prefixes)} : v \in az}

-----------------------------------------------------------------------------
(* DeployConfig and VMDeployer._resolve_network_config *)

\* DeployConfig.__post_init__
\* the subnet flag forgotten when both names are given
post_init_vnet_only(c) ==
    IF c.vnet_name # "" THEN [c EXCEPT !.reuse_vnet = TRUE] ELSE c

post_init(c) ==
    IF c.vnet_name # "" /\ c.subnet_name # ""
    THEN [c EXCEPT !.reuse_vnet = TRUE, !.reuse_subnet = TRUE]
    ELSE IF c.vnet_name # ""
    THEN [c EXCEPT !.reuse_vnet = TRUE]
    ELSE c

\* the subnet get_next_subnet_in_vnet returns in a dry run
DRY_RUN_SUBNET == Cidr(10, 200, 0, 16, 28)

Resolved(v, s, qs, listed, list_ok) ==
    [status |-> "ok", msg |-> "", vnet_prefix |-> v, subnet_prefix |-> s,
     queries |-> qs, listed |-> listed, list_ok |-> list_ok]

ResolveRaised(exc, m, qs, listed, list_ok) ==
    [status |-> exc, msg |-> m, vnet_prefix |-> NoText, subnet_prefix |-> NoText,
     queries |-> qs, listed |-> listed, list_ok |-> list_ok]

\* both names given (lines 440-462)
resolve_full_reuse(c, az, ok1, ok2) ==
    LET q1 == Cmd("network vnet subnet show", EmptyText)
        q2 == Cmd("network vnet show", EmptyText)
        subnet_info == subnet_show(az, c.vnet_name, c.subnet_name, ok1)
        info == vnet_show(az, c.vnet_name, ok2)
    IN  IF c.dry_run
        THEN Resolved(c.vnet_prefix, c.subnet_prefix, <<>>, {}, FALSE)
        ELSE IF ~subnet_info.found
        THEN Resolved(c.vnet_prefix, c.subnet_prefix, <<q1>>, {}, FALSE)
        ELSE IF ~info.found
        THEN Resolved(c.vnet_prefix, subnet_info.addressPrefix, <<q1, q2>>, {}, FALSE)
        ELSE Resolved(IF info.prefixes # <<>> THEN info.prefixes[1] ELSE ExistingText,
                      subnet_info.addressPrefix, <<q1, q2>>, {}, FALSE)

\* only the network name given (lines 464-478)
resolve_partial_reuse(c, az, ok1, ok2) ==
    LET q == Cmd("network vnet show", EmptyText)
        r == get_next_subnet_in_vnet(vnet_show(az, c.vnet_name, ok1))
        info == vnet_show(az, c.vnet_name, ok2)
    IN  IF c.dry_run
        THEN Resolved(c.vnet_prefix, DRY_RUN_SUBNET, <<>>, {}, FALSE)
        ELSE IF r.status # "ok"
        THEN ResolveRaised(r.status, r.msg, <<q>>, {}, FALSE)
        ELSE IF ~info.found
        THEN Resolved(c.vnet_prefix, r.subnet_prefix, <<q, q>>, {}, FALSE)
        ELSE Resolved(IF info.prefixes # <<>> THEN info.prefixes[1] ELSE ExistingText,
                      r.subnet_prefix, <<q, q>>, {}, FALSE)

\* no network name given (lines 480-490)
resolve_fresh(c, az, ok1) ==
    IF c.vnet_prefix = EmptyText
    THEN LET listed == get_existing_vnet_prefixes(c, az, ok1)
             qs == az_run(<<>>, c, Cmd("network vnet list", EmptyText))
             r == get_next_available_prefix(listed)
         IN  IF r.status # "ok"
             THEN ResolveRaised(r.status, r.msg, qs, listed, ok1 /\ ~c.dry_run)
             ELSE Resolved(r.vnet_prefix, r.subnet_prefix, qs, listed, ok1 /\ ~c.dry_run)
    ELSE IF c.subnet_prefix = EmptyText
    THEN IF ip_network_raises(c.vnet_prefix)
         THEN ResolveRaised("ValueError", "vnet prefix", <<>>, {}, FALSE)
         ELSE IF subnets_raises(ip_network(c.vnet_prefix), 28)
         THEN ResolveRaised("ValueError", "new prefix must be longer", <<>>, {}, FALSE)
         ELSE Resolved(c.vnet_prefix,
                       str_network(subnets_at(ip_network(c.vnet_prefix), 28, 1)),
                       <<>>, {}, FALSE)
    ELSE Resolved(c.vnet_prefix, c.subnet_prefix, <<>>, {}, FALSE)

\* VMDeployer._resolve_network_config; ok1 and ok2 say whether its first and
\* its second query succeed
resolve_network_config(c, az, ok1, ok2) ==
    IF c.reuse_vnet /\ c.reuse_subnet THEN resolve_full_reuse(c, az, ok1, ok2)
    ELSE IF c.reuse_vnet THEN resolve_partial_reuse(c, az, ok1, ok2)
    ELSE resolve_fresh(c, az, ok1)

\* the allocator method _resolve_network_config calls for this configuration
allocator_called(c) ==
    IF c.reuse_vnet /\ c.reuse_subnet THEN "none"
    ELSE IF c.reuse_vnet THEN "get_next_subnet_in_vnet"
    ELSE IF c.vnet_prefix = EmptyText THEN "get_next_available_prefix"
    ELSE "none"

\* an exception swallowed instead of leaving deploy
propagates_never(r) == FALSE

\* an exception raised in _resolve_network_config leaves deploy and main
propagates(r) == r.status # "ok"

-----------------------------------------------------------------------------
(* VMDeployer.deploy *)

MaxVNets == 2       \* networks in the resource group when the run starts

\* the methods deploy calls, in the order of its statements
\* planning moved behind the network create
deploy_order_resolve_late ==
    <<"create_resource_group", "validate_ssh_key", "create_vnet",
      "resolve_network_config", "create_subnet", "create_nsg", "create_nsg_rules",
      "create_public_ip", "create_nic", "create_vm", "install_openclaw">>

deploy_order ==
    <<"create_resource_group", "resolve_network_config", "validate_ssh_key",
      "create_vnet", "create_subnet", "create_nsg", "create_nsg_rules",
      "create_public_ip", "create_nic", "create_vm", "install_openclaw">>

after(p) ==
    LET i == CHOOSE k \in 1..Len(deploy_order) : deploy_order[k] = p
    IN  IF i = Len(deploy_order) THEN "done" ELSE deploy_order[i + 1]

VNetNames == {"", "existing-vnet", "missing-vnet"}
SubnetNames == {"", "existing-subnet", "missing-subnet"}
VNetPrefixArgs ==
    {EmptyText, Cidr(10, 200, 0, 0, 27), Cidr(10, 200, 5, 0, 29), Cidr(10, 200, 0, 5, 27),
     Cidr(10, 200, 8, 0, 24), Cidr(10, 200, 0, 16, 28)}
SubnetPrefixArgs == {EmptyText, Cidr(10, 200, 0, 16, 28), Cidr(10, 200, 1, 0, 28)}

Subnet(n, p) == [name |-> n, addressPrefix |-> p]
VNet(n, ps, ss) == [name |-> n, prefixes |-> ps, subnets |-> ss]

\* networks the resource group may hold
VNetPool ==
    { VNet("existing-vnet", <<Cidr(10, 200, 5, 0, 27)>>,
           {Subnet("existing-subnet", Cidr(10, 200, 5, 0, 28))}),
      VNet("existing-vnet", <<Cidr(10, 200, 0, 0, 27)>>,
           {Subnet("existing-subnet", Cidr(10, 200, 0, 0, 28)),
            Subnet("other-subnet", Cidr(10, 200, 0, 16, 28))}),
      VNet("existing-vnet", <<Cidr(10, 200, 5, 0, 27)>>,
           {Subnet("other-subnet", Cidr(10, 200, 5, 1, 28))}),
      VNet("existing-vnet", <<>>, {}),
      VNet("other-vnet", <<Cidr(10, 200, 0, 0, 27)>>, {}),
      VNet("other-vnet", <<Cidr(10, 200, 0, 0, 16)>>, {}),
      VNet("other-vnet", <<Cidr(10, 200, 0, 5, 27)>>, {}),
      VNet("third-vnet", <<Cidr(10, 100, 0, 0, 16), Cidr(10, 200, 0, 32, 27)>>, {}) }

Inventories ==
    {az \in SubsetsUpTo(VNetPool, MaxVNets) :
        \A v \in az : \A w \in az : v.name = w.name => v = w}

Init ==
    /\ op = "deploy"
    /\ existing_prefixes = {}
    /\ vnet_info = NoInfo
    /\ returned = <<>>
    /\ last = NoCall
    /\ args \in [dry_run : BOOLEAN, vnet_name : VNetNames, subnet_name : SubnetNames,
                 vnet_prefix : VNetPrefixArgs, subnet_prefix : SubnetPrefixArgs]
    /\ config = ConfigOf(NoArgs)
    /\ azure \in Inventories
    /\ pc = "parse_args"
    /\ calls = <<>>
    /\ outcome = "running"
    /\ plan = NoPlan
\* the argument check left out
ParseArgs_unvalidated ==
    /\ pc = "parse_args"
    /\ config' = post_init(ConfigOf(args))
    /\ pc' = "create_resource_group"
    /\ UNCHANGED <<op, allocVars, args, azure, calls, outcome, plan>>

\* parse_args: --subnet-name requires --vnet-name; then DeployConfig is built
ParseArgs ==
    /\ pc = "parse_args"
    /\ IF args.subnet_name # "" /\ args.vnet_name = ""
       THEN /\ outcome' = "usage"
            /\ pc' = "aborted"
            /\ UNCHANGED config
       ELSE /\ config' = post_init(ConfigOf(args))
            /\ pc' = "create_resource_group"
            /\ UNCHANGED outcome
    /\ UNCHANGED <<op, allocVars, args, azure, calls, plan>>

\* _create_resource_group: check=False, a failure of the command is passed over
CreateResourceGroup ==
    /\ pc = "create_resource_group"
    /\ \E ok \in BOOLEAN :
          LET create == Cmd("group create", EmptyText)
          IN  calls' = az_run(calls, config, IF ok THEN create ELSE Failed(create))
    /\ pc' = after(pc)
    /\ UNCHANGED <<op, allocVars, args, config, azure, outcome, plan>>

ResolveNetworkConfig ==
    /\ pc = "resolve_network_config"
    /\ \E ok1 \in BOOLEAN, ok2 \in BOOLEAN :
          LET r == resolve_network_config(config, azure, ok1, ok2)
          IN  /\ calls' = calls \o r.queries
              /\ plan' = [status |-> r.status, msg |-> r.msg,
                          listed |-> r.listed, list_ok |-> r.list_ok,
                          allocator |-> allocator_called(config)]
              /\ IF propagates(r)
                 THEN /\ outcome' = r.status
                      /\ pc' = "aborted"
                      /\ UNCHANGED config
                 ELSE /\ config' = [config EXCEPT !.vnet_prefix = r.vnet_prefix,
                                                  !.subnet_prefix = r.subnet_prefix]
                      /\ pc' = after(pc)
                      /\ UNCHANGED outcome
    /\ UNCHANGED <<op, allocVars, args, azure>>

\* lines 389-394: outside a dry run the SSH key file must exist
ValidateSshKey ==
    /\ pc = "validate_ssh_key"
    /\ \E exists \in BOOLEAN :
          IF config.dry_run \/ exists
          THEN pc' = after(pc) /\ UNCHANGED outcome
          ELSE pc' = "aborted" /\ outcome' = "exit"
    /\ UNCHANGED <<op, allocVars, args, config, azure, calls, plan>>

\* the command run with check=False: its failure is passed over
Checked_unchecked(command) ==
    IF config.dry_run
    THEN calls' = calls /\ pc' = after(pc) /\ UNCHANGED outcome
    ELSE \E ok \in BOOLEAN :
            /\ calls' = Append(calls, IF ok THEN command ELSE Failed(command))
            /\ pc' = after(pc)
            /\ UNCHANGED outcome

\* az.run(command) with check=True: a failed command ends the run (sys.exit(1))
Checked(command) ==
    IF config.dry_run
    THEN calls' = calls /\ pc' = after(pc) /\ UNCHANGED outcome
    ELSE \E ok \in BOOLEAN :
            IF ok
            THEN calls' = Append(calls, command) /\ pc' = after(pc) /\ UNCHANGED outcome
            ELSE /\ calls' = Append(calls, Failed(command))
                 /\ pc' = "aborted"
                 /\ outcome' = "exit"

\* the network created whether or not an existing one is reused
CreateVnet_unguarded ==
    /\ pc = "create_vnet"
    /\ Checked(Cmd("network vnet create", config.vnet_prefix))
    /\ UNCHANGED <<op, allocVars, args, config, azure, plan>>

CreateVnet ==
    /\ pc = "create_vnet"
    /\ IF config.reuse_vnet
       THEN pc' = after(pc) /\ UNCHANGED <<calls, outcome>>
       ELSE Checked(Cmd("network vnet create", config.vnet_prefix))
    /\ UNCHANGED <<op, allocVars, args, config, azure, plan>>

CreateSubnet ==
    /\ pc = "create_subnet"
    /\ IF config.reuse_subnet
       THEN pc' = after(pc) /\ UNCHANGED <<calls, outcome>>
       ELSE Checked(Cmd("network vnet subnet create", config.subnet_prefix))
    /\ UNCHANGED <<op, allocVars, args, config, azure, plan>>

CreateNsg ==
    /\ pc = "create_nsg"
    /\ Checked(Cmd("network nsg create", EmptyText))
    /\ UNCHANGED <<op, allocVars, args, config, azure, plan>>

\* _create_nsg_rules: two commands, the second only when the first succeeded
CreateNsgRules ==
    /\ pc = "create_nsg_rules"
    /\ LET rule == Cmd("network nsg rule create", EmptyText)
       IN  IF config.dry_run
           THEN calls' = calls /\ pc' = after(pc) /\ UNCHANGED outcome
           ELSE \E ok1 \in BOOLEAN, ok2 \in BOOLEAN :
                   IF ~ok1
                   THEN /\ calls' = Append(calls, Failed(rule))
                        /\ pc' = "aborted"
                        /\ outcome' = "exit"
                   ELSE IF ok2
                   THEN calls' = calls \o <<rule, rule>> /\ pc' = after(pc) /\ UNCHANGED outcome
                   ELSE /\ calls' = calls \o <<rule, Failed(rule)>>
                        /\ pc' = "aborted"
                        /\ outcome' = "exit"
    /\ UNCHANGED <<op, allocVars, args, config, azure, plan>>

CreatePublicIp ==
    /\ pc = "create_public_ip"
    /\ Checked(Cmd("network public-ip create", EmptyText))
    /\ UNCHANGED <<op, allocVars, args, config, azure, plan>>

CreateNic ==
    /\ pc = "create_nic"
    /\ Checked(Cmd("network nic create", EmptyText))
    /\ UNCHANGED <<op, allocVars, args, config, azure, plan>>

CreateVm ==
    /\ pc = "create_vm"
    /\ Checked(Cmd("vm create", EmptyText))
    /\ UNCHANGED <<op, allocVars, args, config, azure, plan>>

\* lines 410-436: _get_public_ip, then _install_openclaw when there is an address
InstallOpenclaw ==
    /\ pc = "install_openclaw"
    /\ LET show == Cmd("network public-ip show", EmptyText)
           ssh == Cmd("ssh install", EmptyText)
       IN  IF config.dry_run
           THEN calls' = calls /\ pc' = "done" /\ outcome' = "done"
           ELSE \E ok \in BOOLEAN, has_ip \in BOOLEAN :
                   IF ~ok
                   THEN /\ calls' = Append(calls, Failed(show))
                        /\ pc' = "aborted"
                        /\ outcome' = "exit"
                   ELSE /\ calls' = IF has_ip THEN calls \o <<show, ssh>>
                                    ELSE Append(calls, show)
                        /\ pc' = "done"
                        /\ outcome' = "done"
    /\ UNCHANGED <<op, allocVars, args, config, azure, plan>>

Next ==
    \/ ParseArgs
    \/ CreateResourceGroup
    \/ ResolveNetworkConfig
    \/ ValidateSshKey
    \/ CreateVnet
    \/ CreateSubnet
    \/ CreateNsg
    \/ CreateNsgRules
    \/ CreatePublicIp
    \/ CreateNic
    \/ CreateVm
    \/ InstallOpenclaw

Spec == Init /\ [][Next]_vars

-----------------------------------------------------------------------------
(* Address ranges as the properties speak of them: a text denotes a range   *)
(* when it is a CIDR block whose base address has no host bit set; the      *)
(* range is the interval of addresses from Lo to Hi.                        *)

Lo(t) == ((t[1] * 256 + t[2]) * 256 + t[3]) * 256 + t[4]
Hi(t) == Lo(t) + 2 ^ (32 - t[5]) - 1

IsRange(t) ==
    /\ Len(t) = 5
    /\ \A i \in 1..4 : t[i] >= 0 /\ t[i] <= 255
    /\ t[5] >= 0 /\ t[5] <= 32
    /\ Lo(t) % (2 ^ (32 - t[5])) = 0

Intersects(s, t) == Lo(s) <= Hi(t) /\ Lo(t) <= Hi(s)
Inside(s, t) == Lo(t) <= Lo(s) /\ Hi(s) <= Hi(t)

RangesOf(texts) == {t \in texts : IsRange(t)}

\* the block of prefix length l that starts i blocks after the start of range t
BlockOf(t, l, i) ==
    LET a == Lo(t) + i * 2 ^ (32 - l)
    IN  <<a \div 16777216, (a \div 65536) % 256, (a \div 256) % 256, a % 256, l>>

BlocksIn(t, l) == 2 ^ (l - t[5])

\* block b overlaps no range of the claimed texts
FreeOf(b, claimed) == \A c \in RangesOf(claimed) : ~Intersects(b, c)

SomeBlockFree(t, l, claimed) == \E i \in 0..(BlocksIn(t, l) - 1) : FreeOf(BlockOf(t, l, i), claimed)

\* no block of length l inside t that starts below b is free
NoLowerBlockFree(t, l, b, claimed) ==
    \A i \in 0..((Lo(b) - Lo(t)) \div 2 ^ (32 - l) - 1) : ~FreeOf(BlockOf(t, l, i), claimed)

-----------------------------------------------------------------------------
(* C1: for every claimed set of pairwise non-overlapping ranges inside the  *)
(* budget 10.200.0.0/16 that leaves a /27 free, get_next_available_prefix   *)
(* returns a /27 inside the budget whose address interval intersects that   *)
(* of no claimed range, whatever the prefix lengths of the claimed ranges.  *)

C1_Pre(claimed) ==
    /\ \A c \in claimed : IsRange(c) /\ Inside(c, BASE_NETWORK)
    /\ \A c \in claimed : \A d \in claimed : c # d => ~Intersects(c, d)
    /\ SomeBlockFree(BASE_NETWORK, VNET_PREFIX_LEN, claimed)

C1_FreeBlockInBudget ==
    (last.call = "top" /\ C1_Pre(last.claimed)) =>
        /\ last.res.status = "ok"
        /\ IsRange(last.res.vnet_prefix)
        /\ last.res.vnet_prefix[5] = 27
        /\ Inside(last.res.vnet_prefix, BASE_NETWORK)
        /\ \A c \in last.claimed : ~Intersects(last.res.vnet_prefix, c)

C1_Witness ==
    /\ last.call = "top"
    /\ C1_Pre(last.claimed)
    /\ last.claimed = {Cidr(10, 200, 0, 8, 29), Cidr(10, 200, 0, 32, 27)}
    /\ last.res.vnet_prefix = Cidr(10, 200, 0, 64, 27)

(* C2: the returned /27 is the lowest-addressed /27 of the budget that      *)
(* overlaps no claimed range; an empty claimed set gives 10.200.0.0/27 and  *)
(* the claimed set {10.200.0.0/27} gives 10.200.0.32/27.                    *)

C2_LowestFreeBlock ==
    (last.call = "top" /\ last.res.status = "ok") =>
        /\ FreeOf(last.res.vnet_prefix, last.claimed)
        /\ \E i \in 0..(BlocksIn(BASE_NETWORK, 27) - 1) :
              last.res.vnet_prefix = BlockOf(BASE_NETWORK, 27, i)
        /\ NoLowerBlockFree(BASE_NETWORK, 27, last.res.vnet_prefix, last.claimed)
        /\ (last.claimed = {} => last.res.vnet_prefix = Cidr(10, 200, 0, 0, 27))
        /\ (last.claimed = {Cidr(10, 200, 0, 0, 27)} =>
               last.res.vnet_prefix = Cidr(10, 200, 0, 32, 27))

C2_Witness ==
    /\ last.call = "top"
    /\ last.claimed = {Cidr(10, 200, 0, 0, 27)}
    /\ last.res.vnet_prefix = Cidr(10, 200, 0, 32, 27)

(* C3: when every range get_next_available_prefix returns is added to the   *)
(* claimed set before the next call, no call returns a range returned       *)
(* before, and the returned ranges are pairwise non-overlapping.            *)

C3_RoundTripDisjoint ==
    op = "top" =>
        \A i \in 1..Len(returned) : \A j \in 1..Len(returned) :
            i < j => /\ returned[i] # returned[j]
                     /\ ~Intersects(returned[i], returned[j])

C3_Witness ==
    /\ op = "top"
    /\ Len(returned) = 3
    /\ returned[1] = Cidr(10, 200, 0, 64, 27)
    /\ returned[3] = Cidr(10, 200, 0, 128, 27)

(* C4: get_next_available_prefix fails (address space exhausted, returning  *)
(* no range) exactly when every /27 of the budget overlaps a claimed range. *)

C4_ExhaustedIffNoFreeBlock ==
    last.call = "top" =>
        /\ (last.res.status = "RuntimeError") <=>
               ~SomeBlockFree(BASE_NETWORK, VNET_PREFIX_LEN, last.claimed)
        /\ last.res.status \in {"ok", "RuntimeError"}
        /\ (last.res.status = "RuntimeError" =>
               last.res.vnet_prefix = NoText /\ last.res.subnet_prefix = NoText)

C4_Witness ==
    /\ last.call = "top"
    /\ last.claimed = {Cidr(10, 200, 0, 0, 17), Cidr(10, 200, 128, 0, 17)}
    /\ last.res.status = "RuntimeError"

(* C5: when get_next_subnet_in_vnet returns, it returns a /28 inside the    *)
(* network's range that overlaps none of the network's subnet ranges, and   *)
(* no /28 of the network with a lower address is free.                      *)

C5_SubBlockInParent ==
    (last.call = "sub" /\ last.res.status = "ok") =>
        LET parent == last.info.prefixes[1]
            claimed == {s.addressPrefix : s \in last.info.subnets}
            r == last.res.subnet_prefix
        IN  /\ IsRange(parent) /\ parent[5] <= 28
            /\ IsRange(r) /\ r[5] = 28
            /\ Inside(r, parent)
            /\ \A c \in RangesOf(claimed) : ~Intersects(r, c)
            /\ NoLowerBlockFree(parent, 28, r, claimed)

C5_Witness ==
    /\ last.call = "sub"
    /\ last.info.prefixes = <<Cidr(10, 200, 5, 0, 27)>>
    /\ last.info.subnets = SubnetsOf({Cidr(10, 200, 5, 0, 28)})
    /\ last.res.subnet_prefix = Cidr(10, 200, 5, 16, 28)

-----------------------------------------------------------------------------
(* What a deployment run did, as the properties speak of it *)

CreateCmds ==
    {"group create", "network vnet create", "network vnet subnet create",
     "network nsg create", "network nsg rule create", "network public-ip create",
     "network nic create", "vm create"}

Issued(c) == \E i \in 1..Len(calls) : calls[i].cmd = c

NetworkExists(n) == \E v \in azure : v.name = n
SubnetExists(n, sn) == \E v \in azure : v.name = n /\ \E u \in v.subnets : u.name = sn

Planned == plan.status # "none"

\* the ranges of the networks of the resource group
AzureRanges == RangesOf(UNION {{v.prefixes[i] : i \in 1..Len(v.prefixes)} : v \in azure})

(* C6: with both names given outside a dry run, when the named network or   *)
(* subnet does not exist, planning fails (NotFound), the run stops, and no  *)
(* NSG, public IP, NIC or VM create command is executed.                    *)

C6_FullReuseNotFoundStops ==
    (/\ args.vnet_name # "" /\ args.subnet_name # "" /\ ~args.dry_run
     /\ ~SubnetExists(args.vnet_name, args.subnet_name)
     /\ Planned) =>
        /\ plan.status = "RuntimeError"
        /\ pc = "aborted"
        /\ ~Issued("network nsg create") /\ ~Issued("network public-ip create")
        /\ ~Issued("network nic create") /\ ~Issued("vm create")

(* C7: with no network name and both prefixes given, the plan carries the   *)
(* two ranges unchanged only if the subnet range lies inside the network    *)
(* range; otherwise planning fails (InvalidRange) and no network or subnet  *)
(* create command is executed.                                              *)

C7_Contained(v, s) == IsRange(v) /\ IsRange(s) /\ Inside(s, v)

C7_ExplicitRangesValidated ==
    (/\ args.vnet_name = "" /\ args.vnet_prefix # EmptyText
     /\ args.subnet_prefix # EmptyText /\ Planned) =>
        IF C7_Contained(args.vnet_prefix, args.subnet_prefix)
        THEN /\ plan.status = "ok"
             /\ config.vnet_prefix = args.vnet_prefix
             /\ config.subnet_prefix = args.subnet_prefix
        ELSE /\ plan.status = "ValueError"
             /\ ~Issued("network vnet create")
             /\ ~Issued("network vnet subnet create")

(* C8 as claimed: when planning fails, the run stops and no create command  *)
(* of any kind, the resource group's included, has been executed.           *)

C8_NoCreateBeforeAbort ==
    plan.status \in {"RuntimeError", "ValueError"} =>
        /\ pc = "aborted"
        /\ \A i \in 1..Len(calls) : calls[i].cmd \notin CreateCmds

(* C8 as amended: when planning fails, the run stops with that error, and   *)
(* the only create command executed before it is the resource group's:      *)
(* no network, subnet, NSG, NSG rule, public IP, NIC or VM create.          *)

C8_OnlyGroupCreateBeforeAbort ==
    plan.status \in {"RuntimeError", "ValueError"} =>
        /\ pc = "aborted"
        /\ outcome = plan.status
        /\ \A i \in 1..Len(calls) :
              calls[i].cmd \in CreateCmds => (i = 1 /\ calls[i].cmd = "group create")

C8_Witness ==
    /\ plan.status = "RuntimeError"
    /\ plan.msg = "No available VNet address space"
    /\ pc = "aborted"
    /\ Issued("group create")
    /\ Issued("network vnet list")

(* C9 as claimed: a malformed range text among the allocator's inputs, an   *)
(* inventory entry included, makes the allocation fail (InvalidRange), and  *)
(* no range is returned.                                                    *)

C9_MalformedInput ==
    \/ /\ last.call = "top"
       /\ \E t \in last.claimed : ~IsRange(t)
    \/ /\ last.call = "sub" /\ last.info.found /\ last.info.prefixes # <<>>
       /\ \/ ~IsRange(last.info.prefixes[1])
          \/ \E u \in last.info.subnets :
                u.addressPrefix # EmptyText /\ ~IsRange(u.addressPrefix)

C9_MalformedAlwaysFails ==
    C9_MalformedInput =>
        /\ last.res.status = "ValueError"
        /\ last.res.vnet_prefix = NoText /\ last.res.subnet_prefix = NoText

(* C9 as amended: get_next_subnet_in_vnet, for a network that is found and  *)
(* has an address space, fails with ValueError and returns no range when    *)
(* the network's first prefix or a subnet's addressPrefix is malformed, even*)
(* if a /28 is free; get_next_available_prefix passes over malformed        *)
(* inventory entries and returns what the well-formed entries alone give.   *)

C9_SubFailsTopSkips ==
    /\ (last.call = "sub" /\ C9_MalformedInput) =>
           /\ last.res.status = "ValueError"
           /\ last.res.subnet_prefix = NoText
    /\ (last.call = "top" /\ C9_MalformedInput) =>
           /\ last.res.status \in {"ok", "RuntimeError"}
           /\ last.res.status = "ok" =>
                  /\ FreeOf(last.res.vnet_prefix, last.claimed)
                  /\ NoLowerBlockFree(BASE_NETWORK, 27, last.res.vnet_prefix, last.claimed)
           /\ last.res.status = "RuntimeError" =>
                  ~SomeBlockFree(BASE_NETWORK, 27, last.claimed)

C9_Witness ==
    /\ last.call = "sub"
    /\ last.info.prefixes = <<Cidr(10, 200, 5, 0, 27)>>
    /\ last.info.subnets = SubnetsOf({Cidr(10, 200, 5, 1, 28)})
    /\ last.res.status = "ValueError"

(* C10 as claimed: with no network name given, the network range of the     *)
(* plan, allocated or given by the caller, overlaps no network range of the *)
(* resource group (stated for the runs outside a dry run in which the list  *)
(* query, when one is made, succeeds).                                      *)

C10_FreshNeverCollides ==
    (/\ args.vnet_name = "" /\ ~args.dry_run /\ plan.status = "ok"
     /\ (args.vnet_prefix = EmptyText => plan.list_ok)
     /\ IsRange(config.vnet_prefix)) =>
        \A t \in AzureRanges : ~Intersects(config.vnet_prefix, t)

(* C10 as amended: with neither a network name nor a network prefix given,  *)
(* the network range of the plan is a /27 of the budget that overlaps no    *)
(* well-formed range the list query returned, hence, when that query        *)
(* succeeded, no well-formed network range of the resource group; it is the *)
(* range every network create command carries.                              *)

C10_AllocatedAvoidsInventory ==
    (args.vnet_name = "" /\ args.vnet_prefix = EmptyText /\ plan.status = "ok") =>
        /\ IsRange(config.vnet_prefix)
        /\ config.vnet_prefix[5] = 27
        /\ Inside(config.vnet_prefix, BASE_NETWORK)
        /\ \A t \in RangesOf(plan.listed) : ~Intersects(config.vnet_prefix, t)
        /\ plan.list_ok => \A t \in AzureRanges : ~Intersects(config.vnet_prefix, t)
        /\ \A i \in 1..Len(calls) :
              calls[i].cmd = "network vnet create" => calls[i].arg = config.vnet_prefix

C10_Witness ==
    /\ args.vnet_name = "" /\ args.vnet_prefix = EmptyText
    /\ plan.status = "ok" /\ plan.list_ok
    /\ Cardinality(azure) = 2
    /\ config.vnet_prefix = Cidr(10, 200, 0, 64, 27)
    /\ Issued("network vnet create")

-----------------------------------------------------------------------------
(* C11: when both a network name and a subnet name are given the plan has   *)
(* both reuse flags set, _resolve_network_config calls neither allocator    *)
(* method, and no network create and no subnet create command is issued at  *)
(* any point of the deployment; in every deployment a network create is     *)
(* issued only with the network reuse flag unset and a subnet create only   *)
(* with the subnet reuse flag unset.                                        *)

C11_FullReuseCreatesNothing ==
    /\ (args.vnet_name # "" /\ args.subnet_name # "" /\ pc # "parse_args") =>
          /\ config.reuse_vnet /\ config.reuse_subnet
          /\ plan.allocator = "none"
          /\ ~Issued("network vnet create")
          /\ ~Issued("network vnet subnet create")
    /\ Issued("network vnet create") => ~config.reuse_vnet
    /\ Issued("network vnet subnet create") => ~config.reuse_subnet

C11_Witness ==
    /\ args.vnet_name = "existing-vnet" /\ args.subnet_name = "existing-subnet"
    /\ ~args.dry_run
    /\ SubnetExists(args.vnet_name, args.subnet_name)
    /\ Planned /\ plan.allocator = "none"
    /\ outcome = "done"
    /\ Issued("network nic create") /\ Issued("vm create")
    /\ ~Issued("network vnet create") /\ ~Issued("network vnet subnet create")

-----------------------------------------------------------------------------
(* C12: the network named by the request, and the case "only a network name *)
(* is given, that network exists with well-formed ranges and a free /28,    *)
(* and planning produced a plan".                                           *)

C12_Net == CHOOSE v \in azure : v.name = args.vnet_name
C12_Taken == {u.addressPrefix : u \in C12_Net.subnets}

C12_Exists ==
    /\ args.vnet_name # "" /\ args.subnet_name = ""
    /\ NetworkExists(args.vnet_name)
    /\ C12_Net.prefixes # <<>>
    /\ IsRange(C12_Net.prefixes[1]) /\ C12_Net.prefixes[1][5] <= 28
    /\ \A t \in C12_Taken : IsRange(t)
    /\ SomeBlockFree(C12_Net.prefixes[1], 28, C12_Taken)

C12_PastSubnetStep ==
    pc \in {"create_nsg", "create_nsg_rules", "create_public_ip", "create_nic",
            "create_vm", "install_openclaw", "done"}

C12_Post ==
    /\ config.reuse_vnet /\ ~config.reuse_subnet
    /\ plan.allocator = "get_next_subnet_in_vnet"
    /\ IsRange(config.subnet_prefix) /\ config.subnet_prefix[5] = 28
    /\ Inside(config.subnet_prefix, C12_Net.prefixes[1])
    /\ config.subnet_prefix \notin C12_Taken
    /\ FreeOf(config.subnet_prefix, C12_Taken)
    /\ NoLowerBlockFree(C12_Net.prefixes[1], 28, config.subnet_prefix, C12_Taken)
    /\ ~Issued("network vnet create")
    /\ \A i \in 1..Len(calls) :
          calls[i].cmd = "network vnet subnet create" => calls[i].arg = config.subnet_prefix
    /\ C12_PastSubnetStep => Issued("network vnet subnet create")

(* C12 as stated: whenever only a network name is given and that network    *)
(* exists with a free /28, the plan reuses the network but not the subnet,  *)
(* its subnet range is the lowest /28 of the network's own range that       *)
(* overlaps none of the network's subnets, and the deployment issues a      *)
(* subnet create with that range and no network create.                     *)

C12_PartialReuseAllocates ==
    (C12_Exists /\ plan.status = "ok") => C12_Post

(* C12 as amended: the same outside a dry run; there, moreover, planning    *)
(* fails only when the show query itself fails.                             *)

C12_PartialReuseAllocatesOutsideDryRun ==
    /\ (C12_Exists /\ ~args.dry_run /\ plan.status = "ok") => C12_Post
    /\ (C12_Exists /\ ~args.dry_run /\ Planned /\ plan.status # "ok") =>
          plan.status = "RuntimeError" /\ plan.msg = "VNet not found"

C12_Witness ==
    /\ C12_Exists /\ ~args.dry_run /\ plan.status = "ok"
    /\ C12_Net.prefixes[1] = Cidr(10, 200, 5, 0, 27)
    /\ Cidr(10, 200, 5, 0, 28) \in C12_Taken
    /\ config.subnet_prefix = Cidr(10, 200, 5, 16, 28)
    /\ Issued("network vnet subnet create")
    /\ outcome = "done"

-----------------------------------------------------------------------------
(* C13: a subnet derived for a fresh network is the /28 with the base       *)
(* address of the network range, whatever the resource group holds: both    *)
(* when the network range was allocated (no network prefix given) and when  *)
(* it was given without a subnet prefix; the derivation succeeds for every  *)
(* well-formed network range of prefix length at most 28 (10.200.0.0/27     *)
(* gives 10.200.0.0/28), and the derived subnet lies inside the network     *)
(* range of the plan.                                                       *)

C13_FirstBlock(t) == <<t[1], t[2], t[3], t[4], 28>>

C13_Derives ==
    /\ args.vnet_name = ""
    /\ args.vnet_prefix = EmptyText \/ args.subnet_prefix = EmptyText

C13_DerivedSubnetIsFirstBlock ==
    /\ (C13_Derives /\ plan.status = "ok") =>
          /\ IsRange(config.vnet_prefix) /\ config.vnet_prefix[5] <= 28
          /\ config.subnet_prefix = C13_FirstBlock(config.vnet_prefix)
          /\ Inside(config.subnet_prefix, config.vnet_prefix)
          /\ \A i \in 1..Len(calls) :
                calls[i].cmd = "network vnet subnet create" =>
                    calls[i].arg = C13_FirstBlock(config.vnet_prefix)
    /\ (/\ C13_Derives /\ Planned /\ args.vnet_prefix # EmptyText
        /\ IsRange(args.vnet_prefix) /\ args.vnet_prefix[5] <= 28) =>
          /\ plan.status = "ok"
          /\ config.vnet_prefix = args.vnet_prefix
    /\ (C13_Derives /\ plan.status = "ok" /\ config.vnet_prefix = Cidr(10, 200, 0, 0, 27)) =>
          config.subnet_prefix = Cidr(10, 200, 0, 0, 28)

C13_Witness ==
    /\ args.vnet_name = "" /\ ~args.dry_run
    /\ args.vnet_prefix = Cidr(10, 200, 8, 0, 24) /\ args.subnet_prefix = EmptyText
    /\ \E v \in azure : \E u \in v.subnets : u.addressPrefix = Cidr(10, 200, 0, 0, 28)
    /\ plan.status = "ok"
    /\ config.subnet_prefix = Cidr(10, 200, 8, 0, 28)
    /\ Issued("network vnet subnet create")

-----------------------------------------------------------------------------
(* C14: the inventory queries of one deployment.                            *)

InventoryQueries == {"network vnet list", "network vnet show", "network vnet subnet show"}

QueriesIssued == SelectSeq(calls, LAMBDA c : c.cmd \in InventoryQueries)

C14_Show == Cmd("network vnet show", EmptyText)
C14_SubnetShow == Cmd("network vnet subnet show", EmptyText)
C14_List == Cmd("network vnet list", EmptyText)

(* C14 as stated: within one deployment the inventory is fetched once: the  *)
(* deployment issues at most one inventory query, so every range of the     *)
(* plan comes from that one read and no second query lies between the       *)
(* allocation decision and the create commands.                             *)

C14_InventoryFetchedOnce == Len(QueriesIssued) <= 1

(* C14 as amended: the inventory is read while planning only, before every  *)
(* create command other than the resource group's, and the ranges the       *)
(* create commands carry are those of the plan.  Without a network name     *)
(* there is one list query when no network prefix is given and none         *)
(* otherwise.  With only a network name, a first show query gives the       *)
(* parent range and the subnets the new subnet is allocated against, and,   *)
(* when the allocation succeeded, a second show query gives the reported    *)
(* network range, which stays the --vnet-prefix argument when that second   *)
(* query fails.  With both names there is a subnet show query and, when it  *)
(* found the subnet, a network show query.  A dry run issues none.          *)

C14_InventoryReadWhilePlanning ==
    /\ \A i \in 1..Len(calls) :
          calls[i].cmd \in InventoryQueries =>
              \A j \in 1..(i - 1) : calls[j].cmd \in InventoryQueries \cup {"group create"}
    /\ ~Planned => QueriesIssued = <<>>
    /\ args.dry_run => QueriesIssued = <<>>
    /\ (Planned /\ ~args.dry_run /\ args.vnet_name = "") =>
          QueriesIssued = IF args.vnet_prefix = EmptyText THEN <<C14_List>> ELSE <<>>
    /\ (Planned /\ ~args.dry_run /\ args.vnet_name # "" /\ args.subnet_name = "") =>
          /\ QueriesIssued = IF plan.status = "ok" THEN <<C14_Show, C14_Show>>
                                                   ELSE <<C14_Show>>
          /\ plan.status = "ok" =>
                /\ NetworkExists(args.vnet_name)
                /\ Inside(config.subnet_prefix, C12_Net.prefixes[1])
                /\ FreeOf(config.subnet_prefix, C12_Taken)
                /\ config.vnet_prefix \in {C12_Net.prefixes[1], args.vnet_prefix}
    /\ (Planned /\ ~args.dry_run /\ args.vnet_name # "" /\ args.subnet_name # "") =>
          \/ QueriesIssued = <<C14_SubnetShow>>
          \/ /\ QueriesIssued = <<C14_SubnetShow, C14_Show>>
             /\ SubnetExists(args.vnet_name, args.subnet_name)
    /\ \A i \in 1..Len(calls) :
          /\ calls[i].cmd = "network vnet create" => calls[i].arg = config.vnet_prefix
          /\ calls[i].cmd = "network vnet subnet create" => calls[i].arg = config.subnet_prefix

C14_Witness ==
    /\ args.vnet_name = "existing-vnet" /\ args.subnet_name = "" /\ ~args.dry_run
    /\ args.vnet_prefix = Cidr(10, 200, 8, 0, 24)
    /\ plan.status = "ok"
    /\ QueriesIssued = <<C14_Show, C14_Show>>
    /\ C12_Net.prefixes[1] = Cidr(10, 200, 5, 0, 27)
    /\ config.vnet_prefix = Cidr(10, 200, 8, 0, 24)
    /\ config.subnet_prefix = Cidr(10, 200, 5, 16, 28)
    /\ Issued("network vnet subnet create")

-----------------------------------------------------------------------------
(* C15: a request with a subnet name but no network name ends as a usage    *)
(* error before planning: no inventory query, no allocation and no create   *)
(* command; hence no configuration ever has the subnet reuse flag set with  *)
(* the network reuse flag unset.                                            *)

C15_SubnetNameNeedsVnetName ==
    /\ (args.subnet_name # "" /\ args.vnet_name = "" /\ pc # "parse_args") =>
          /\ outcome = "usage" /\ pc = "aborted"
          /\ calls = <<>>
          /\ plan = NoPlan
          /\ config = ConfigOf(NoArgs)
    /\ outcome = "usage" => args.subnet_name # "" /\ args.vnet_name = ""
    /\ ~(config.reuse_subnet /\ ~config.reuse_vnet)

C15_Witness ==
    /\ args.subnet_name = "existing-subnet" /\ args.vnet_name = ""
    /\ ~args.dry_run
    /\ SubnetExists("existing-vnet", "existing-subnet")
    /\ outcome = "usage" /\ pc = "aborted"
    /\ calls = <<>>

-----------------------------------------------------------------------------
(* C16: in a dry run no command is executed over the whole deployment,      *)
(* neither an inventory query nor a create command nor the public-ip query, *)
(* and no installation session is opened, whichever names are given; the    *)
(* plan is computed from an empty inventory: with neither a network name    *)
(* nor a network prefix it is 10.200.0.0/27 with subnet 10.200.0.0/28, and  *)
(* with only a network name its subnet is the fixed 10.200.0.16/28.         *)

C16_DryRunExecutesNothing ==
    args.dry_run =>
        /\ calls = <<>>
        /\ outcome # "exit"
        /\ Planned =>
              /\ plan.listed = {} /\ ~plan.list_ok
              /\ (args.vnet_name = "" /\ args.vnet_prefix = EmptyText) =>
                    /\ plan.status = "ok"
                    /\ config.vnet_prefix = Cidr(10, 200, 0, 0, 27)
                    /\ config.subnet_prefix = Cidr(10, 200, 0, 0, 28)
              /\ (args.vnet_name # "" /\ args.subnet_name = "") =>
                    /\ plan.status = "ok"
                    /\ config.subnet_prefix = Cidr(10, 200, 0, 16, 28)
              /\ (args.vnet_name # "" /\ args.subnet_name # "") =>
                    /\ plan.status = "ok"
                    /\ config.vnet_prefix = args.vnet_prefix
                    /\ config.subnet_prefix = args.subnet_prefix

C16_Witness ==
    /\ args.dry_run
    /\ args.vnet_name = "existing-vnet" /\ args.subnet_name = ""
    /\ NetworkExists("existing-vnet") /\ Cardinality(azure) = 2
    /\ config.subnet_prefix = Cidr(10, 200, 0, 16, 28)
    /\ outcome = "done" /\ pc = "done"
    /\ calls = <<>>

-----------------------------------------------------------------------------
(* C17: outside a dry run the create commands are issued in the order       *)
(* resource group, network (unless reused), subnet (unless reused), NSG,    *)
(* the two NSG rules, public IP, NIC, VM; a failure of any command from the *)
(* network create onward ends the run at once, so that no create command    *)
(* and no installation follows a failed one; NIC and VM are created only    *)
(* after every network and subnet create the plan requires has succeeded.   *)

CreatesIssued == SelectSeq(calls, LAMBDA c : c.cmd \in CreateCmds)

C17_Expected ==
    <<"group create">>
    \o (IF config.reuse_vnet THEN <<>> ELSE <<"network vnet create">>)
    \o (IF config.reuse_subnet THEN <<>> ELSE <<"network vnet subnet create">>)
    \o <<"network nsg create", "network nsg rule create", "network nsg rule create",
         "network public-ip create", "network nic create", "vm create">>

C17_Succeeded(c) == \E i \in 1..Len(calls) : calls[i].cmd = c /\ ~calls[i].failed

C17_OrderedAndFailStop ==
    ~args.dry_run =>
        /\ Len(CreatesIssued) <= Len(C17_Expected)
        /\ \A i \in 1..Len(CreatesIssued) : CreatesIssued[i].cmd = C17_Expected[i]
        /\ \A i \in 1..Len(calls) :
              (calls[i].failed /\ calls[i].cmd # "group create") =>
                  /\ i = Len(calls)
                  /\ pc = "aborted" /\ outcome = "exit"
        /\ (Issued("network nic create") \/ Issued("vm create")) =>
              /\ ~config.reuse_vnet => C17_Succeeded("network vnet create")
              /\ ~config.reuse_subnet => C17_Succeeded("network vnet subnet create")
        /\ (Issued("ssh install") \/ pc = "done") =>
              /\ Len(CreatesIssued) = Len(C17_Expected)
              /\ \A i \in 2..Len(CreatesIssued) : ~CreatesIssued[i].failed

C17_Witness ==
    /\ ~args.dry_run
    /\ args.vnet_name = "" /\ plan.status = "ok"
    /\ Len(CreatesIssued) = 7
    /\ CreatesIssued[7].cmd = "network public-ip create" /\ CreatesIssued[7].failed
    /\ C17_Succeeded("network vnet create") /\ C17_Succeeded("network vnet subnet create")
    /\ ~Issued("network nic create") /\ ~Issued("vm create") /\ ~Issued("ssh install")
    /\ pc = "aborted" /\ outcome = "exit"

-----------------------------------------------------------------------------
(* C18: with neither a network name nor a network prefix given, outside a   *)
(* dry run, a list query that fails or returns nothing is taken for an      *)
(* empty resource group: the claimed set is empty, no error is raised, and  *)
(* the plan is 10.200.0.0/27 with subnet 10.200.0.0/28 whatever networks    *)
(* the resource group holds, exactly the plan of an empty resource group.   *)

C18_FreshAuto ==
    /\ args.vnet_name = "" /\ args.vnet_prefix = EmptyText
    /\ ~args.dry_run /\ Planned

C18_FailedListIsEmptyInventory ==
    /\ (C18_FreshAuto /\ ~plan.list_ok) =>
          /\ plan.listed = {}
          /\ plan.status = "ok" /\ outcome \notin {"ValueError", "RuntimeError"}
          /\ config.vnet_prefix = Cidr(10, 200, 0, 0, 27)
          /\ config.subnet_prefix = Cidr(10, 200, 0, 0, 28)
          /\ QueriesIssued = <<C14_List>>
    /\ (C18_FreshAuto /\ plan.list_ok /\ azure = {}) =>
          /\ plan.listed = {}
          /\ plan.status = "ok"
          /\ config.vnet_prefix = Cidr(10, 200, 0, 0, 27)
          /\ config.subnet_prefix = Cidr(10, 200, 0, 0, 28)

C18_Witness ==
    /\ C18_FreshAuto /\ ~plan.list_ok
    /\ \E v \in azure : v.prefixes = <<Cidr(10, 200, 0, 0, 27)>>
    /\ config.vnet_prefix = Cidr(10, 200, 0, 0, 27)
    /\ \E i \in 1..Len(calls) :
          /\ calls[i].cmd = "network vnet create"
          /\ calls[i].arg = Cidr(10, 200, 0, 0, 27)

=============================================================================
